---- MODULE Spec2Model ----
(***************************************************************************)
(* Model of PointsService (src/points/points.service.ts): an in-memory     *)
(* ledger of point transactions with addTransaction, spendPoints and       *)
(* getBalances.  Every call of the service is one atomic action; the       *)
(* spend walk is computed the way the code computes it (stable sort,       *)
(* pre-computed payer balances, insertion-ordered spending map).           *)
(***************************************************************************)
EXTENDS Integers, Sequences, FiniteSets, TLC

\* ------------------------------------------------------------------ bounds
MaxTx == 3          \* addTransaction calls explored
MaxSpends == 2      \* spendPoints calls explored
MaxAmount == 2      \* largest amount asked of spendPoints
MaxClock == 23      \* latest wall-clock reading explored (hours since the epoch)
RefMaxSpends == 3   \* spendPoints calls explored after the README example's adds

\* ------------------------------------------------------------------ inputs
Payers == {"A", "B"}
PointValues == {-1, 0, 1, 2}
\* ISO-8601 timestamps of the DTO, as their calendar fields (day since the
\* epoch, hour of the day)
Timestamps == {[day |-> 0, hour |-> 23], [day |-> 1, hour |-> 0]}
TransactionDtos == [payer : Payers, points : PointValues, timestamp : Timestamps]
Amounts == -1 .. MaxAmount

VARIABLES transactions, clock, call, ret, nAdds, nSpends

\* the earlier version of the service (it recomputes a payer's balance at
\* every walked transaction), given the same calls: its ledger and its
\* last outcome
VARIABLES transactions0, ret0

vars == <<transactions, clock, call, ret, nAdds, nSpends, transactions0, ret0>>

\* ------------------------------------------------------------ pure helpers
Min(a, b) == IF a <= b THEN a ELSE b

Abs(a) == IF a < 0 THEN -a ELSE a

\* new Date(iso).getTime(), in hours
ParseDate(ts) == ts.day * 24 + ts.hour

\* the wall clock when the service starts
ClockStart == ParseDate([day |-> 0, hour |-> 23])

\* faulty variant: the comparator sorts newest first
CompareTimestampDescending(a, b) == b.timestamp - a.timestamp

\* a.timestamp.getTime() - b.timestamp.getTime()
CompareTimestamp(a, b) == a.timestamp - b.timestamp

\* faulty variant: an unstable sort that puts t before the elements it ties with
RECURSIVE InsertSortedTiesReversed(_, _)
InsertSortedTiesReversed(sorted, t) ==
    IF sorted = <<>> THEN <<t>>
    ELSE IF CompareTimestamp(sorted[Len(sorted)], t) < 0 THEN Append(sorted, t)
    ELSE Append(InsertSortedTiesReversed(SubSeq(sorted, 1, Len(sorted) - 1), t),
                sorted[Len(sorted)])

\* Array.prototype.sort is stable: t goes after every element that does not
\* compare greater than it
RECURSIVE InsertSorted(_, _)
InsertSorted(sorted, t) ==
    IF sorted = <<>> THEN <<t>>
    ELSE IF CompareTimestamp(sorted[Len(sorted)], t) <= 0 THEN Append(sorted, t)
    ELSE Append(InsertSorted(SubSeq(sorted, 1, Len(sorted) - 1), t), sorted[Len(sorted)])

\* faulty variant: the walk runs over the ledger as it was inserted
SortedTransactionsUnsorted(txs) == txs

RECURSIVE SortedTransactions(_)
SortedTransactions(txs) ==
    IF txs = <<>> THEN <<>>
    ELSE InsertSorted(SortedTransactions(SubSeq(txs, 1, Len(txs) - 1)), txs[Len(txs)])

\* faulty variant: the total counts credits only
RECURSIVE getTotalPointsCreditsOnly(_)
getTotalPointsCreditsOnly(txs) ==
    IF txs = <<>> THEN 0
    ELSE getTotalPointsCreditsOnly(SubSeq(txs, 1, Len(txs) - 1))
         + (IF txs[Len(txs)].points > 0 THEN txs[Len(txs)].points ELSE 0)

\* this.transactions.reduce((sum, t) => sum + t.points, 0)
RECURSIVE getTotalPoints(_)
getTotalPoints(txs) ==
    IF txs = <<>> THEN 0
    ELSE getTotalPoints(SubSeq(txs, 1, Len(txs) - 1)) + txs[Len(txs)].points

\* A JavaScript Map: entries in insertion order of their keys
MapHas(m, k) == \E i \in 1 .. Len(m) : m[i].payer = k

\* map.get(k) || 0
MapGet(m, k) ==
    IF MapHas(m, k) THEN (CHOOSE e \in {m[i] : i \in 1 .. Len(m)} : e.payer = k).points
    ELSE 0

\* faulty variant: setting an existing key moves it to the end
MapSetMoveToEnd(m, k, v) ==
    Append(SelectSeq(m, LAMBDA e : e.payer # k), [payer |-> k, points |-> v])

\* map.set(k, v): an existing key keeps its position, a new key goes last
MapSet(m, k, v) ==
    IF MapHas(m, k)
    THEN [i \in 1 .. Len(m) |-> IF m[i].payer = k THEN [payer |-> k, points |-> v] ELSE m[i]]
    ELSE Append(m, [payer |-> k, points |-> v])

\* faulty variant: the balances are pre-computed from the credits alone
RECURSIVE payerBalancesCreditsOnly(_)
payerBalancesCreditsOnly(txs) ==
    IF txs = <<>> THEN <<>>
    ELSE LET rest == payerBalancesCreditsOnly(SubSeq(txs, 1, Len(txs) - 1))
             t == txs[Len(txs)]
         IN MapSet(rest, t.payer,
                   MapGet(rest, t.payer) + (IF t.points > 0 THEN t.points ELSE 0))

\* Step 2 of spendPoints: balances of all payers, in ledger order
RECURSIVE payerBalances(_)
payerBalances(txs) ==
    IF txs = <<>> THEN <<>>
    ELSE LET rest == payerBalances(SubSeq(txs, 1, Len(txs) - 1))
             t == txs[Len(txs)]
         IN MapSet(rest, t.payer, MapGet(rest, t.payer) + t.points)

\* ------------------------------------------------------------- spend walk
\* faulty variant: the draw is not held to the payer's balance
CreditDrawUnclamped(transactionPoints, remainingToSpend, currentPayerBalance, currentSpending) ==
    Min(transactionPoints, remainingToSpend)

\* faulty variant: a credit that does not fit under the balance is skipped
CreditDrawNoDrain(transactionPoints, remainingToSpend, currentPayerBalance, currentSpending) ==
    LET availableFromTransaction == Min(transactionPoints, remainingToSpend)
    IN IF currentPayerBalance - currentSpending - availableFromTransaction >= 0
       THEN availableFromTransaction
       ELSE 0

\* faulty variant: the draw is not held to what remains to be spent
CreditDrawIgnoringRemaining(transactionPoints, remainingToSpend, currentPayerBalance, currentSpending) ==
    LET maxCanSpend == currentPayerBalance - currentSpending
    IN IF maxCanSpend <= 0 THEN 0
       ELSE IF transactionPoints <= maxCanSpend THEN transactionPoints
       ELSE maxCanSpend

\* the amount the walk draws from a credit
CreditDraw(transactionPoints, remainingToSpend, currentPayerBalance, currentSpending) ==
    LET availableFromTransaction == Min(transactionPoints, remainingToSpend)
        newPayerBalance == currentPayerBalance - currentSpending - availableFromTransaction
        maxCanSpend == currentPayerBalance - currentSpending
    IN IF newPayerBalance >= 0 THEN availableFromTransaction
       ELSE IF maxCanSpend > 0 THEN maxCanSpend
       ELSE 0

\* faulty variant: debits give nothing back
PointsToGiveBackNone(transactionPoints, currentSpending) == 0

\* faulty variant: the whole debit is given back, whatever was spent
PointsToGiveBackAll(transactionPoints, currentSpending) == Abs(transactionPoints)

\* the amount the walk gives back on a non-positive transaction
PointsToGiveBack(transactionPoints, currentSpending) ==
    Min(Abs(transactionPoints), currentSpending)

\* one iteration of the for loop; once remainingToSpend <= 0 the loop has
\* left (break) and the state stays as it is
WalkStep(st, transaction, balances) ==
    IF st.remainingToSpend <= 0 THEN st
    ELSE LET payer == transaction.payer
             currentPayerBalance == MapGet(balances, payer)
             currentSpending == MapGet(st.spendingByPayer, payer)
         IN IF transaction.points > 0
            THEN LET draw == CreditDraw(transaction.points, st.remainingToSpend,
                                        currentPayerBalance, currentSpending)
                 IN IF draw > 0
                    THEN [spendingByPayer |-> MapSet(st.spendingByPayer, payer, currentSpending + draw),
                          remainingToSpend |-> st.remainingToSpend - draw,
                          processed |-> st.processed + 1]
                    ELSE [st EXCEPT !.processed = @ + 1]
            ELSE LET pointsToGiveBack == PointsToGiveBack(transaction.points, currentSpending)
                 IN IF pointsToGiveBack > 0
                    THEN [spendingByPayer |-> MapSet(st.spendingByPayer, payer, currentSpending - pointsToGiveBack),
                          remainingToSpend |-> st.remainingToSpend + pointsToGiveBack,
                          processed |-> st.processed + 1]
                    ELSE [st EXCEPT !.processed = @ + 1]

\* the state of the loop after the first k sorted transactions
RECURSIVE Walk(_, _, _, _)
Walk(sorted, balances, pointsToSpend, k) ==
    IF k = 0
    THEN [spendingByPayer |-> <<>>, remainingToSpend |-> pointsToSpend, processed |-> 0]
    ELSE WalkStep(Walk(sorted, balances, pointsToSpend, k - 1), sorted[k], balances)

WalkOf(txs, pointsToSpend, k) ==
    Walk(SortedTransactions(txs), payerBalances(txs), pointsToSpend, k)

FinalWalk(txs, pointsToSpend) == WalkOf(txs, pointsToSpend, Len(txs))

\* The earlier version: getPayerBalance filters the ledger by payer and sums
RECURSIVE getPayerBalance(_, _)
getPayerBalance(txs, payer) ==
    IF txs = <<>> THEN 0
    ELSE getPayerBalance(SubSeq(txs, 1, Len(txs) - 1), payer)
         + (IF txs[Len(txs)].payer = payer THEN txs[Len(txs)].points ELSE 0)

\* its loop body: as WalkStep, with the payer's balance read from the ledger
WalkStep0(st, transaction, txs) ==
    IF st.remainingToSpend <= 0 THEN st
    ELSE LET payer == transaction.payer
             currentPayerBalance == getPayerBalance(txs, payer)
             currentSpending == MapGet(st.spendingByPayer, payer)
         IN IF transaction.points > 0
            THEN LET draw == CreditDraw(transaction.points, st.remainingToSpend,
                                        currentPayerBalance, currentSpending)
                 IN IF draw > 0
                    THEN [spendingByPayer |-> MapSet(st.spendingByPayer, payer, currentSpending + draw),
                          remainingToSpend |-> st.remainingToSpend - draw,
                          processed |-> st.processed + 1]
                    ELSE [st EXCEPT !.processed = @ + 1]
            ELSE LET pointsToGiveBack == PointsToGiveBack(transaction.points, currentSpending)
                 IN IF pointsToGiveBack > 0
                    THEN [spendingByPayer |-> MapSet(st.spendingByPayer, payer, currentSpending - pointsToGiveBack),
                          remainingToSpend |-> st.remainingToSpend + pointsToGiveBack,
                          processed |-> st.processed + 1]
                    ELSE [st EXCEPT !.processed = @ + 1]

RECURSIVE Walk0(_, _, _, _)
Walk0(sorted, txs, pointsToSpend, k) ==
    IF k = 0
    THEN [spendingByPayer |-> <<>>, remainingToSpend |-> pointsToSpend, processed |-> 0]
    ELSE WalkStep0(Walk0(sorted, txs, pointsToSpend, k - 1), sorted[k], txs)

FinalWalk0(txs, pointsToSpend) ==
    Walk0(SortedTransactions(txs), txs, pointsToSpend, Len(txs))

\* faulty variant: entries of zero spending are returned too
ToResultUnfiltered(m) ==
    [i \in 1 .. Len(m) |-> [payer |-> m[i].payer, points |-> -m[i].points]]

\* Step 5: the spending map as the result array
RECURSIVE ToResult(_)
ToResult(m) ==
    IF m = <<>> THEN <<>>
    ELSE LET rest == ToResult(SubSeq(m, 1, Len(m) - 1))
             e == m[Len(m)]
         IN IF e.points > 0 THEN Append(rest, [payer |-> e.payer, points |-> -e.points])
            ELSE rest

\* faulty variant: the spent points are recorded as credits
SpendTransactionsPositive(result, now) ==
    [i \in 1 .. Len(result) |->
        [payer |-> result[i].payer, points |-> -result[i].points, timestamp |-> now]]

\* Step 6: the transactions recorded for a result
SpendTransactions(result, now) ==
    [i \in 1 .. Len(result) |->
        [payer |-> result[i].payer, points |-> result[i].points, timestamp |-> now]]

\* the two validations at the head of spendPoints
IsNegativeAmount(pointsToSpend) == pointsToSpend < 0

\* faulty variant: spending the whole total is refused
IsInsufficientOrEqual(totalPoints, pointsToSpend) == totalPoints <= pointsToSpend

IsInsufficient(totalPoints, pointsToSpend) == totalPoints < pointsToSpend

PositiveError == [message |-> "Points to spend must be positive"]

InsufficientError(totalPoints, pointsToSpend) ==
    [message |-> "Insufficient points", available |-> totalPoints, requested |-> pointsToSpend]

\* faulty variant: payers whose balance is 0 are left out
BalancesOfNonZero(txs) ==
    [p \in {q \in {txs[i].payer : i \in 1 .. Len(txs)} : MapGet(payerBalances(txs), q) # 0}
        |-> MapGet(payerBalances(txs), p)]

\* getBalances(): an object keyed by the payers of the ledger
BalancesOf(txs) ==
    [p \in {txs[i].payer : i \in 1 .. Len(txs)} |-> MapGet(payerBalances(txs), p)]

\* getBalances() of the earlier version
BalancesOf0(txs) ==
    [p \in {txs[i].payer : i \in 1 .. Len(txs)} |-> getPayerBalance(txs, p)]

\* ---------------------------------------------------------------- actions
NoCall == [op |-> "none"]

Init ==
    /\ transactions = <<>>
    /\ clock = ClockStart
    /\ call = NoCall
    /\ ret = [threw |-> FALSE, value |-> <<>>]
    /\ nAdds = 0
    /\ nSpends = 0
    /\ transactions0 = <<>>
    /\ ret0 = [threw |-> FALSE, value |-> <<>>]

\* faulty variant: the new transaction is put in front of the ledger
addTransactionUnshift(transactionDto) ==
    LET transaction == [payer |-> transactionDto.payer,
                        points |-> transactionDto.points,
                        timestamp |-> ParseDate(transactionDto.timestamp)]
    IN /\ transactions' = <<transaction>> \o transactions
       /\ call' = [op |-> "addTransaction", dto |-> transactionDto, before |-> transactions]
       /\ ret' = [threw |-> FALSE, value |-> transaction]
       /\ nAdds' = nAdds + 1
       /\ UNCHANGED <<clock, nSpends>>

\* faulty variant: transactions without positive points are refused
addTransactionPositiveOnly(transactionDto) ==
    LET transaction == [payer |-> transactionDto.payer,
                        points |-> transactionDto.points,
                        timestamp |-> ParseDate(transactionDto.timestamp)]
    IN /\ call' = [op |-> "addTransaction", dto |-> transactionDto, before |-> transactions]
       /\ nAdds' = nAdds + 1
       /\ UNCHANGED <<clock, nSpends>>
       /\ IF transactionDto.points > 0
          THEN /\ transactions' = Append(transactions, transaction)
               /\ ret' = [threw |-> FALSE, value |-> transaction]
          ELSE /\ UNCHANGED transactions
               /\ ret' = [threw |-> TRUE, value |-> [message |-> "Points must be positive"]]

addTransaction(transactionDto) ==
    LET transaction == [payer |-> transactionDto.payer,
                        points |-> transactionDto.points,
                        timestamp |-> ParseDate(transactionDto.timestamp)]
    IN /\ transactions' = Append(transactions, transaction)
       /\ call' = [op |-> "addTransaction", dto |-> transactionDto, before |-> transactions]
       /\ ret' = [threw |-> FALSE, value |-> transaction]
       /\ nAdds' = nAdds + 1
       /\ UNCHANGED <<clock, nSpends>>

\* now is the reading of the wall clock (new Date()) during the call
spendPoints(pointsToSpend, now) ==
    LET totalPoints == getTotalPoints(transactions)
        result == ToResult(FinalWalk(transactions, pointsToSpend).spendingByPayer)
    IN /\ call' = [op |-> "spendPoints", amount |-> pointsToSpend, now |-> now,
                   before |-> transactions]
       /\ clock' = now
       /\ nSpends' = nSpends + 1
       /\ UNCHANGED nAdds
       /\ IF IsNegativeAmount(pointsToSpend)
          THEN /\ ret' = [threw |-> TRUE, value |-> PositiveError]
               /\ UNCHANGED transactions
          ELSE IF IsInsufficient(totalPoints, pointsToSpend)
          THEN /\ ret' = [threw |-> TRUE, value |-> InsufficientError(totalPoints, pointsToSpend)]
               /\ UNCHANGED transactions
          ELSE /\ transactions' = transactions \o SpendTransactions(result, now)
               /\ ret' = [threw |-> FALSE, value |-> result]

\* faulty variant: the ledger is emptied while it is read
getBalancesDraining ==
    /\ call' = [op |-> "getBalances", before |-> transactions,
                repeated |-> call.op = "getBalances"]
    /\ ret' = [threw |-> FALSE, value |-> BalancesOf(transactions)]
    /\ transactions' = <<>>
    /\ UNCHANGED <<clock, nAdds, nSpends>>

\* repeated records whether the call before this one was getBalances too
getBalances ==
    /\ call' = [op |-> "getBalances", before |-> transactions,
                repeated |-> call.op = "getBalances"]
    /\ ret' = [threw |-> FALSE, value |-> BalancesOf(transactions)]
    /\ UNCHANGED <<transactions, clock, nAdds, nSpends>>

\* the same calls on the earlier version
addTransaction0(transactionDto) ==
    LET transaction == [payer |-> transactionDto.payer,
                        points |-> transactionDto.points,
                        timestamp |-> ParseDate(transactionDto.timestamp)]
    IN /\ transactions0' = Append(transactions0, transaction)
       /\ ret0' = [threw |-> FALSE, value |-> transaction]

spendPoints0(pointsToSpend, now) ==
    LET totalPoints == getTotalPoints(transactions0)
        result == ToResult(FinalWalk0(transactions0, pointsToSpend).spendingByPayer)
    IN IF IsNegativeAmount(pointsToSpend)
       THEN /\ ret0' = [threw |-> TRUE, value |-> PositiveError]
            /\ UNCHANGED transactions0
       ELSE IF IsInsufficient(totalPoints, pointsToSpend)
       THEN /\ ret0' = [threw |-> TRUE, value |-> InsufficientError(totalPoints, pointsToSpend)]
            /\ UNCHANGED transactions0
       ELSE /\ transactions0' = transactions0 \o SpendTransactions(result, now)
            /\ ret0' = [threw |-> FALSE, value |-> result]

getBalances0 ==
    /\ ret0' = [threw |-> FALSE, value |-> BalancesOf0(transactions0)]
    /\ UNCHANGED transactions0

\* --------------------------------------------------------- specifications
AddCall ==
    \E dto \in TransactionDtos :
        nAdds < MaxTx /\ addTransaction(dto) /\ addTransaction0(dto)

SpendCall ==
    \E amount \in Amounts, now \in clock .. MaxClock :
        nSpends < MaxSpends /\ spendPoints(amount, now) /\ spendPoints0(amount, now)

BalanceCall == getBalances /\ getBalances0

Next == AddCall \/ SpendCall \/ BalanceCall

Spec == Init /\ [][Next]_vars

\* The README example: its five adds in the order given, then spends and
\* balance queries.  Days count from 1970-01-01; 19904 is 2024-06-30.
RefDtos ==
    << [payer |-> "SHOPIFY", points |-> 1000,  timestamp |-> [day |-> 19906, hour |-> 14]],
       [payer |-> "EBAY",    points |-> 200,   timestamp |-> [day |-> 19904, hour |-> 11]],
       [payer |-> "SHOPIFY", points |-> -200,  timestamp |-> [day |-> 19904, hour |-> 15]],
       [payer |-> "AMAZON",  points |-> 10000, timestamp |-> [day |-> 19905, hour |-> 14]],
       [payer |-> "SHOPIFY", points |-> 300,   timestamp |-> [day |-> 19904, hour |-> 10]] >>

RefAmounts == {0, 1, 5000, 6300, 6301}

\* the example is run after the dates it uses
RefClockStart == ParseDate([day |-> 19907, hour |-> 0])

RefClocks == {RefClockStart, RefClockStart + 1}

InitRef ==
    /\ transactions = <<>>
    /\ clock = RefClockStart
    /\ call = NoCall
    /\ ret = [threw |-> FALSE, value |-> <<>>]
    /\ nAdds = 0
    /\ nSpends = 0
    /\ transactions0 = <<>>
    /\ ret0 = [threw |-> FALSE, value |-> <<>>]

RefAddCall ==
    /\ nAdds < Len(RefDtos)
    /\ addTransaction(RefDtos[nAdds + 1])
    /\ addTransaction0(RefDtos[nAdds + 1])

RefSpendCall ==
    \E amount \in RefAmounts, now \in {c \in RefClocks : c >= clock} :
        /\ nAdds = Len(RefDtos)
        /\ nSpends < RefMaxSpends
        /\ spendPoints(amount, now)
        /\ spendPoints0(amount, now)

RefBalanceCall == nAdds = Len(RefDtos) /\ getBalances /\ getBalances0

NextRef == RefAddCall \/ RefSpendCall \/ RefBalanceCall

SpecRef == InitRef /\ [][NextRef]_vars

\* The service started after every date the adds can carry: each spend is
\* later than all added transactions.
LateClock == ParseDate([day |-> 1, hour |-> 1])

InitLate ==
    /\ transactions = <<>>
    /\ clock = LateClock
    /\ call = NoCall
    /\ ret = [threw |-> FALSE, value |-> <<>>]
    /\ nAdds = 0
    /\ nSpends = 0
    /\ transactions0 = <<>>
    /\ ret0 = [threw |-> FALSE, value |-> <<>>]

LateSpendCall ==
    \E amount \in Amounts :
        nSpends < MaxSpends /\ spendPoints(amount, clock) /\ spendPoints0(amount, clock)

NextLate == AddCall \/ LateSpendCall \/ BalanceCall

SpecLate == InitLate /\ [][NextLate]_vars

\* Adds whose dates are pairwise distinct instants, in any order, on a
\* service started after all of them.  T24:00:00 is the ISO-8601 spelling
\* of the next day's midnight: two spellings of one instant.
DistinctTimestamps ==
    Timestamps \cup {[day |-> 0, hour |-> 22], [day |-> 0, hour |-> 24]}

DistinctDtos == [payer : Payers, points : PointValues, timestamp : DistinctTimestamps]

DistinctAddCall ==
    \E dto \in DistinctDtos :
        /\ nAdds < MaxTx
        /\ \A i \in 1 .. Len(transactions) :
              transactions[i].timestamp # ParseDate(dto.timestamp)
        /\ addTransaction(dto)
        /\ addTransaction0(dto)

NextDistinct == DistinctAddCall \/ LateSpendCall \/ BalanceCall

SpecDistinct == InitLate /\ [][NextDistinct]_vars

\* ------------------------------------------------- vocabulary of the claims
Max(a, b) == IF a >= b THEN a ELSE b

RECURSIVE SumIdx(_, _)
SumIdx(f, S) ==
    IF S = {} THEN 0
    ELSE LET i == CHOOSE j \in S : TRUE IN f[i] + SumIdx(f, S \ {i})

\* sum of the points of all events of the ledger
LedgerTotal(txs) == SumIdx([i \in 1 .. Len(txs) |-> txs[i].points], 1 .. Len(txs))

\* sum of the points of the events of one source
SourceBalance(txs, p) ==
    SumIdx([i \in 1 .. Len(txs) |-> txs[i].points], {i \in 1 .. Len(txs) : txs[i].payer = p})

SourcesOf(txs) == {txs[i].payer : i \in 1 .. Len(txs)}

\* what a returned result deducts from one source, and in all
DeductedFrom(result, p) == -SourceBalance(result, p)

DeductedTotal(result) == -LedgerTotal(result)

IsSpend == call.op = "spendPoints"

SpendOk == IsSpend /\ ~ret.threw

ThrewPositive == ret.threw /\ ret.value = PositiveError

ThrewInsufficient == ret.threw /\ ret.value.message = "Insufficient points"

CreditsOnly(txs) == \A i \in 1 .. Len(txs) : txs[i].points > 0

\* event i is walked before event j: earlier timestamp, or the same
\* timestamp and added earlier
ChronoBefore(txs, i, j) ==
    \/ txs[i].timestamp < txs[j].timestamp
    \/ txs[i].timestamp = txs[j].timestamp /\ i < j

\* oldest-first consumption of x from a ledger of credits: what is taken
\* from credit i once every credit before it is used up
ConsumedFrom(txs, x, i) ==
    LET earlier == SumIdx([j \in 1 .. Len(txs) |-> txs[j].points],
                          {j \in 1 .. Len(txs) : ChronoBefore(txs, j, i)})
    IN Min(txs[i].points, Max(0, x - earlier))

OldestFirstDeduction(txs, x, p) ==
    SumIdx([i \in 1 .. Len(txs) |-> ConsumedFrom(txs, x, i)],
           {i \in 1 .. Len(txs) : txs[i].payer = p})

\* allocation of source p after the first k events of the walk of the last call
AllocatedAt(k, p) == MapGet(WalkOf(call.before, call.amount, k).spendingByPayer, p)

\* position in the walk at which source p was first drawn from
FirstDrawn(p) ==
    CHOOSE k \in 1 .. Len(call.before) :
        /\ AllocatedAt(k, p) > AllocatedAt(k - 1, p)
        /\ \A j \in 1 .. k - 1 : AllocatedAt(j, p) <= AllocatedAt(j - 1, p)

\* ------------------------------------------------------------------ claims

\* C1 (as claimed): spendPoints is all-or-nothing: a call either fails with
\* the ledger unchanged, or succeeds with entries whose deducted points sum
\* to exactly the amount, the ledger total drops by exactly the amount and
\* the walk ends with nothing left unallocated.
C1_AllOrNothing ==
    IsSpend =>
        \/ ret.threw /\ transactions = call.before
        \/ /\ ~ret.threw
           /\ DeductedTotal(ret.value) = call.amount
           /\ LedgerTotal(transactions) = LedgerTotal(call.before) - call.amount
           /\ FinalWalk(call.before, call.amount).remainingToSpend = 0

\* C2: in a successful spendPoints, what is deducted from a source never
\* exceeds that source's balance before the call; only sources with a
\* strictly positive balance appear in the result, and a source whose
\* balance was >= 0 before the spend is >= 0 after it.
C2_DeductionWithinBalance ==
    SpendOk =>
        /\ \A p \in SourcesOf(call.before) :
              /\ DeductedFrom(ret.value, p) <= Max(0, SourceBalance(call.before, p))
              /\ SourceBalance(call.before, p) >= 0 => SourceBalance(transactions, p) >= 0
        /\ \A i \in 1 .. Len(ret.value) :
              /\ SourceBalance(call.before, ret.value[i].payer) > 0
              /\ -ret.value[i].points <= SourceBalance(call.before, ret.value[i].payer)

C2_Witness ==
    /\ SpendOk
    /\ \E i \in 1 .. Len(ret.value) :
          /\ -ret.value[i].points = SourceBalance(call.before, ret.value[i].payer)
          /\ \E j \in 1 .. Len(call.before) :
                /\ call.before[j].payer = ret.value[i].payer
                /\ call.before[j].points > -ret.value[i].points
    /\ call.amount > DeductedTotal(ret.value) \/ Len(ret.value) > 1

\* C3: on a ledger of credits only and 0 < x <= total, spendPoints(x)
\* succeeds and deducts oldest-first: credits are consumed in ascending
\* timestamp order (ties in insertion order), each in full before a later
\* one is touched; a source's entry is the sum consumed from its credits and
\* is at most that source's balance.
C3_OldestFirstOnCredits ==
    (/\ IsSpend
     /\ CreditsOnly(call.before)
     /\ 0 < call.amount
     /\ call.amount <= LedgerTotal(call.before)) =>
        /\ ~ret.threw
        /\ \A p \in Payers :
              /\ DeductedFrom(ret.value, p) = OldestFirstDeduction(call.before, call.amount, p)
              /\ DeductedFrom(ret.value, p) <= SourceBalance(call.before, p)

\* the credit added last is the oldest, and the spend uses it up and takes
\* part of another source's later credit
C3_Witness ==
    /\ SpendOk
    /\ CreditsOnly(call.before)
    /\ Len(call.before) = 3
    /\ Len(ret.value) = 2
    /\ call.before[3].timestamp < call.before[1].timestamp
    /\ call.before[3].payer # call.before[1].payer
    /\ DeductedFrom(ret.value, call.before[3].payer) = call.before[3].points
    /\ call.amount < LedgerTotal(call.before)

\* C4 (as claimed): spendPoints(amount) with amount <= 0 always fails with
\* the must-be-positive error and leaves the ledger unchanged.
C4_NonPositiveRejected ==
    (IsSpend /\ call.amount <= 0) => (ThrewPositive /\ transactions = call.before)

\* C5: a positive amount above the total balance always fails with the
\* insufficient-points error, which carries the available total and the
\* requested amount, and leaves the ledger unchanged; a positive amount equal
\* to the total is not rejected.
C5_InsufficientRejected ==
    /\ (IsSpend /\ call.amount > 0 /\ call.amount > LedgerTotal(call.before)) =>
          /\ ret.threw
          /\ ret.value = [message |-> "Insufficient points",
                          available |-> LedgerTotal(call.before),
                          requested |-> call.amount]
          /\ transactions = call.before
    /\ (IsSpend /\ call.amount > 0 /\ call.amount = LedgerTotal(call.before)) => ~ret.threw

C5_Witness ==
    /\ IsSpend
    /\ call.amount > 0
    /\ LedgerTotal(call.before) > 0
    /\ call.amount > LedgerTotal(call.before)
    /\ \E i \in 1 .. Len(call.before) : call.before[i].points < 0
    /\ ThrewInsufficient

\* C6: the README example: after its five adds, spendPoints(5000) returns
\* exactly [SHOPIFY -100, EBAY -200, AMAZON -4700] in that order, and
\* getBalances() then returns SHOPIFY 1000, EBAY 0, AMAZON 5300.
RefLedger ==
    << [payer |-> "SHOPIFY", points |-> 1000,  timestamp |-> 19906 * 24 + 14],
       [payer |-> "EBAY",    points |-> 200,   timestamp |-> 19904 * 24 + 11],
       [payer |-> "SHOPIFY", points |-> -200,  timestamp |-> 19904 * 24 + 15],
       [payer |-> "AMAZON",  points |-> 10000, timestamp |-> 19905 * 24 + 14],
       [payer |-> "SHOPIFY", points |-> 300,   timestamp |-> 19904 * 24 + 10] >>

RefResult ==
    << [payer |-> "SHOPIFY", points |-> -100],
       [payer |-> "EBAY",    points |-> -200],
       [payer |-> "AMAZON",  points |-> -4700] >>

\* the ledger right after the example's spendPoints(5000): the five adds and
\* the three deductions, which share one timestamp
AfterRefSpend(txs) ==
    /\ Len(txs) = 8
    /\ SubSeq(txs, 1, 5) = RefLedger
    /\ \A i \in 1 .. 3 :
          /\ txs[5 + i].payer = RefResult[i].payer
          /\ txs[5 + i].points = RefResult[i].points
          /\ txs[5 + i].timestamp = txs[6].timestamp

C6_ReferenceScenario ==
    /\ (IsSpend /\ call.before = RefLedger /\ call.amount = 5000) =>
          (~ret.threw /\ ret.value = RefResult /\ AfterRefSpend(transactions))
    /\ (call.op = "getBalances" /\ AfterRefSpend(transactions)) =>
          /\ DOMAIN ret.value = {"SHOPIFY", "EBAY", "AMAZON"}
          /\ ret.value["SHOPIFY"] = 1000
          /\ ret.value["EBAY"] = 0
          /\ ret.value["AMAZON"] = 5300

C6_Witness ==
    /\ call.op = "getBalances"
    /\ AfterRefSpend(transactions)
    /\ nSpends = 1

\* C7: on the ledger left by the example's spendPoints(5000) (total 6300),
\* spendPoints(6301) fails with insufficient points and changes nothing,
\* spendPoints(1) succeeds, and spendPoints(6300) succeeds and leaves
\* SHOPIFY, EBAY and AMAZON at exactly 0.
C7_SecondSpendBoundary ==
    (IsSpend /\ AfterRefSpend(call.before)) =>
        /\ call.amount = 6301 => (ThrewInsufficient /\ transactions = call.before)
        /\ call.amount = 1 => (~ret.threw /\ DeductedTotal(ret.value) = 1)
        /\ call.amount = 6300 =>
              /\ ~ret.threw
              /\ \A p \in {"SHOPIFY", "EBAY", "AMAZON"} : SourceBalance(transactions, p) = 0

C7_Witness ==
    /\ SpendOk
    /\ AfterRefSpend(call.before)
    /\ call.amount = 6300
    /\ Len(transactions) = 10

\* C8: a successful spendPoints appends exactly one event per returned
\* entry, with the entry's source and (negative) points and the one
\* timestamp read at the call, and nothing else; a source in the result has
\* its balance changed by its entry's points, any other source keeps its
\* balance.
C8_SpendAppendsResult ==
    SpendOk =>
        /\ Len(transactions) = Len(call.before) + Len(ret.value)
        /\ SubSeq(transactions, 1, Len(call.before)) = call.before
        /\ \A i \in 1 .. Len(ret.value) :
              transactions[Len(call.before) + i] =
                  [payer |-> ret.value[i].payer,
                   points |-> ret.value[i].points,
                   timestamp |-> call.now]
        /\ \A p \in SourcesOf(transactions) :
              SourceBalance(transactions, p) =
                  SourceBalance(call.before, p) + SourceBalance(ret.value, p)
        /\ \A p \in SourcesOf(transactions) \ SourcesOf(ret.value) :
              SourceBalance(transactions, p) = SourceBalance(call.before, p)

C8_Witness ==
    /\ SpendOk
    /\ Len(ret.value) = 2
    /\ Len(call.before) = 3

\* C9: every returned entry has strictly negative points, no source has two
\* entries, and a source whose final allocation in the call is zero (never
\* drawn from, or drawn and given back in full) has no entry.
C9_ResultEntries ==
    SpendOk =>
        /\ \A i \in 1 .. Len(ret.value) : ret.value[i].points < 0
        /\ \A i, j \in 1 .. Len(ret.value) :
              ret.value[i].payer = ret.value[j].payer => i = j
        /\ \A p \in Payers \cup SourcesOf(call.before) :
              AllocatedAt(Len(call.before), p) = 0 => p \notin SourcesOf(ret.value)

\* a source was drawn from and given back in full, another one is returned
C9_Witness ==
    /\ SpendOk
    /\ Len(ret.value) > 0
    /\ \E p \in SourcesOf(call.before) :
          /\ AllocatedAt(Len(call.before), p) = 0
          /\ \E k \in 1 .. Len(call.before) : AllocatedAt(k, p) > 0

\* C10: the returned entries are in the order in which their sources were
\* first drawn from during the walk, also when a source was given back to
\* zero by a debit and drawn again later in the walk.
C10_FirstDrawnOrder ==
    SpendOk =>
        \A i, j \in 1 .. Len(ret.value) :
            i < j => FirstDrawn(ret.value[i].payer) < FirstDrawn(ret.value[j].payer)

\* the first returned source was given back to zero after its first draw and
\* drawn again after the second returned source's first draw
C10_Witness ==
    /\ SpendOk
    /\ Len(ret.value) = 2
    /\ \E k \in 1 .. Len(call.before) :
          /\ k > FirstDrawn(ret.value[1].payer)
          /\ AllocatedAt(k, ret.value[1].payer) = 0
          /\ FirstDrawn(ret.value[2].payer) > k
          /\ \E m \in 1 .. Len(call.before) :
                /\ m > FirstDrawn(ret.value[2].payer)
                /\ AllocatedAt(m, ret.value[1].payer) > AllocatedAt(m - 1, ret.value[1].payer)

\* C11: getBalances() returns a mapping whose keys are exactly the sources
\* of the ledger's events (sources with balance 0 or below included) and
\* whose value for a source is the sum of the points of its events.
C11_BalancesMapping ==
    call.op = "getBalances" =>
        /\ ~ret.threw
        /\ DOMAIN ret.value = SourcesOf(transactions)
        /\ \A p \in SourcesOf(transactions) : ret.value[p] = SourceBalance(transactions, p)

\* one source at 0 after a spend, the other below 0
C11_Witness ==
    /\ call.op = "getBalances"
    /\ nSpends > 0
    /\ \E p, q \in SourcesOf(transactions) : ret.value[p] = 0 /\ ret.value[q] < 0

\* C12: getBalances() leaves the ledger unchanged, and a getBalances() call
\* that directly follows another one returns the same mapping.
C12_BalancesReadOnly ==
    [][call'.op = "getBalances" =>
          /\ transactions' = transactions
          /\ call.op = "getBalances" => ret'.value = ret.value]_vars

C12_Witness ==
    /\ call.op = "getBalances"
    /\ call.repeated
    /\ Cardinality(DOMAIN ret.value) = 2
    /\ nSpends > 0

\* C13: the ledger is append-only: in every call the ledger before it is a
\* prefix of the ledger after it.
C13_AppendOnly ==
    [][/\ Len(transactions') >= Len(transactions)
       /\ SubSeq(transactions', 1, Len(transactions)) = transactions]_vars

\* a spend has appended its deductions behind earlier adds and deductions
C13_Witness ==
    /\ SpendOk
    /\ nSpends = 2
    /\ Len(call.before) >= 3
    /\ Len(transactions) > Len(call.before)

\* C14: addTransaction never rejects (whatever the sign of points), appends
\* exactly one event with the given source, points and timestamp, returns
\* it, changes that source's balance by points and no other balance.
C14_AddAppendsOne ==
    call.op = "addTransaction" =>
        LET event == [payer |-> call.dto.payer,
                      points |-> call.dto.points,
                      timestamp |-> 24 * call.dto.timestamp.day + call.dto.timestamp.hour]
        IN /\ ~ret.threw
           /\ transactions = Append(call.before, event)
           /\ ret.value = event
           /\ \A p \in Payers :
                 SourceBalance(transactions, p) =
                     SourceBalance(call.before, p) + (IF p = call.dto.payer THEN call.dto.points ELSE 0)

\* a zero-point add behind a debit and a credit of two sources
C14_Witness ==
    /\ call.op = "addTransaction"
    /\ call.dto.points = 0
    /\ \E i, j \in 1 .. Len(call.before) :
          /\ call.before[i].points < 0
          /\ call.before[j].points > 0
          /\ call.before[i].payer # call.before[j].payer

\* ---------------------------------------------- the walk of the last spend
\* the ledger index of the k-th event in chronological order
ChronoAt(txs, k) ==
    CHOOSE i \in 1 .. Len(txs) :
        Cardinality({j \in 1 .. Len(txs) : ChronoBefore(txs, j, i)}) = k - 1

\* the k-th event the walk of the last call comes to
WalkEvent(k) == call.before[ChronoAt(call.before, k)]

\* what remains to be allocated after the first k events of that walk
RemainingAt(k) == WalkOf(call.before, call.amount, k).remainingToSpend

WalkSteps == 1 .. Len(call.before)

\* C15: when the walk reaches a negative event with remaining > 0, it gives
\* back min(|points|, allocation of that source): the source's allocation
\* drops and the remaining amount rises by it, the other allocations stay,
\* and a debit of a source without allocation changes nothing.
C15_DebitStep ==
    SpendOk =>
        \A k \in WalkSteps :
            (WalkEvent(k).points < 0 /\ RemainingAt(k - 1) > 0) =>
                LET p == WalkEvent(k).payer
                    giveBack == Min(-WalkEvent(k).points, AllocatedAt(k - 1, p))
                IN /\ AllocatedAt(k, p) = AllocatedAt(k - 1, p) - giveBack
                   /\ RemainingAt(k) = RemainingAt(k - 1) + giveBack
                   /\ \A q \in SourcesOf(call.before) \ {p} :
                         AllocatedAt(k, q) = AllocatedAt(k - 1, q)

\* a debit gives back what its source was drawn for, in a ledger of two
\* sources where the walk goes on to draw after it
C15_Witness ==
    /\ SpendOk
    /\ Cardinality(SourcesOf(call.before)) = 2
    /\ \E k \in WalkSteps :
          /\ WalkEvent(k).points < 0
          /\ RemainingAt(k - 1) > 0
          /\ AllocatedAt(k - 1, WalkEvent(k).payer) > 0
          /\ \E m \in WalkSteps : m > k /\ RemainingAt(m) < RemainingAt(m - 1)

\* C16: when the walk reaches a positive event with remaining > 0, it draws
\* exactly max(0, min(points, remaining, balance - allocated)), where
\* balance is the source's sum over the whole ledger before the call.
C16_CreditStep ==
    SpendOk =>
        \A k \in WalkSteps :
            (WalkEvent(k).points > 0 /\ RemainingAt(k - 1) > 0) =>
                LET p == WalkEvent(k).payer
                    ceiling == SourceBalance(call.before, p) - AllocatedAt(k - 1, p)
                    draw == Max(0, Min(Min(WalkEvent(k).points, RemainingAt(k - 1)), ceiling))
                IN /\ AllocatedAt(k, p) = AllocatedAt(k - 1, p) + draw
                   /\ RemainingAt(k) = RemainingAt(k - 1) - draw
                   /\ \A q \in SourcesOf(call.before) \ {p} :
                         AllocatedAt(k, q) = AllocatedAt(k - 1, q)

\* one credit is drawn under the ceiling (the source is drained), another
\* one is drawn in full, and a third draw is refused
C16_Witness ==
    /\ SpendOk
    /\ \E k \in WalkSteps :
          /\ WalkEvent(k).points > 0
          /\ RemainingAt(k - 1) > 0
          /\ AllocatedAt(k, WalkEvent(k).payer) > AllocatedAt(k - 1, WalkEvent(k).payer)
          /\ AllocatedAt(k, WalkEvent(k).payer) = SourceBalance(call.before, WalkEvent(k).payer)
          /\ AllocatedAt(k, WalkEvent(k).payer) - AllocatedAt(k - 1, WalkEvent(k).payer)
                < Min(WalkEvent(k).points, RemainingAt(k - 1))
    /\ \E k \in WalkSteps :
          /\ WalkEvent(k).points > 0
          /\ RemainingAt(k - 1) > 0
          /\ AllocatedAt(k, WalkEvent(k).payer) = AllocatedAt(k - 1, WalkEvent(k).payer)

\* C18: before and after every event of the walk, remaining plus the sum of
\* the allocations equals the requested amount, remaining >= 0, and every
\* source's allocation lies between 0 and max(0, its balance before the call).
C18_WalkInvariant ==
    SpendOk =>
        \A k \in 0 .. Len(call.before) :
            /\ RemainingAt(k)
                  + SumIdx([p \in SourcesOf(call.before) |-> AllocatedAt(k, p)],
                           SourcesOf(call.before)) = call.amount
            /\ RemainingAt(k) >= 0
            /\ \A p \in SourcesOf(call.before) :
                  /\ 0 <= AllocatedAt(k, p)
                  /\ AllocatedAt(k, p) <= Max(0, SourceBalance(call.before, p))

\* a walk over five events that draws, gives back and draws again
C18_Witness ==
    /\ SpendOk
    /\ Len(call.before) = 5
    /\ FinalWalk(call.before, call.amount).processed = 5
    /\ \E k \in WalkSteps : RemainingAt(k) > RemainingAt(k - 1)
    /\ \E p \in SourcesOf(call.before) : SourceBalance(call.before, p) <= 0

\* C19: the walk takes the events in ascending timestamp order and events
\* of one timestamp in the order they were added; of two credits of one
\* timestamp and different sources the one added first is drawn from first.
C19_WalkOrder ==
    /\ SpendOk =>
          \A k \in WalkSteps : SortedTransactions(call.before)[k] = WalkEvent(k)
    /\ (/\ IsSpend
        /\ Len(call.before) = 2
        /\ CreditsOnly(call.before)
        /\ call.before[1].timestamp = call.before[2].timestamp
        /\ call.before[1].payer # call.before[2].payer
        /\ 0 < call.amount
        /\ call.amount <= call.before[1].points) =>
          ret.value = <<[payer |-> call.before[1].payer, points |-> -call.amount]>>

\* the walk runs over two credits of one timestamp and over the two
\* deductions of an earlier spend, which share a timestamp
C19_Witness ==
    /\ SpendOk
    /\ FinalWalk(call.before, call.amount).processed = Len(call.before)
    /\ \E i, j \in 1 .. Len(call.before) :
          /\ i < j
          /\ call.before[i].points > 0 /\ call.before[j].points > 0
          /\ call.before[i].timestamp = call.before[j].timestamp
          /\ call.before[i].payer # call.before[j].payer
    /\ \E i, j \in 1 .. Len(call.before) :
          /\ i < j
          /\ call.before[i].points < 0 /\ call.before[j].points < 0
          /\ call.before[i].timestamp = call.before[j].timestamp
          /\ call.before[i].payer # call.before[j].payer
          /\ nAdds = 3

\* the leading credits of a ledger, and what follows them
CreditPrefixLen(txs) ==
    Cardinality({n \in 1 .. Len(txs) : \A i \in 1 .. n : txs[i].points > 0})

CreditPrefix(txs) == SubSeq(txs, 1, CreditPrefixLen(txs))

AfterCredits(txs) == SubSeq(txs, CreditPrefixLen(txs) + 1, Len(txs))

\* txs is a ledger of credits followed by the deductions of one successful
\* spend that was later than all of them
CreditsThenOneSpend(txs) ==
    LET L == CreditPrefix(txs)
        D == AfterCredits(txs)
    IN /\ Len(L) > 0 /\ Len(D) > 0
       /\ \A i \in 1 .. Len(D) :
             /\ D[i].points < 0
             /\ D[i].timestamp = D[1].timestamp
             /\ \A j \in 1 .. Len(L) : L[j].timestamp < D[i].timestamp
       /\ \A p \in SourcesOf(txs) :
             DeductedFrom(D, p) = OldestFirstDeduction(L, DeductedTotal(D), p)

\* the balance of p after one spendPoints(amount) on ledger txs
BalanceAfterSingleSpend(txs, amount, p) ==
    SourceBalance(txs, p)
        + SourceBalance(ToResult(FinalWalk(txs, amount).spendingByPayer), p)

\* C17 (as claimed): on a ledger L of credits that all precede the spends,
\* spendPoints(x) followed by spendPoints(y) (x, y > 0, x + y <= total)
\* leaves every source with the balance a single spendPoints(x + y) on L
\* would leave.
C17_SuccessiveSpends ==
    (/\ SpendOk
     /\ call.amount > 0
     /\ nSpends = 2
     /\ CreditsThenOneSpend(call.before)) =>
        \A p \in SourcesOf(call.before) :
            SourceBalance(transactions, p) =
                BalanceAfterSingleSpend(CreditPrefix(call.before),
                                        DeductedTotal(AfterCredits(call.before)) + call.amount, p)

\* C20: the version that pre-computes the payer balances and the earlier
\* version that recomputes a payer's balance at every walked transaction
\* return the same results and errors and hold the same ledger after every
\* call of every sequence of calls.
C20_VersionsAgree ==
    /\ transactions0 = transactions
    /\ ret0 = ret

\* a second spend whose walk clamps a draw and gives back at a debit
C20_Witness ==
    /\ SpendOk
    /\ nSpends = 2
    /\ Len(ret.value) > 0
    /\ \E k \in WalkSteps : RemainingAt(k) > RemainingAt(k - 1)
    /\ \E k \in WalkSteps :
          /\ WalkEvent(k).points > 0
          /\ RemainingAt(k - 1) > 0
          /\ AllocatedAt(k, WalkEvent(k).payer) - AllocatedAt(k - 1, WalkEvent(k).payer)
                < Min(WalkEvent(k).points, RemainingAt(k - 1))

\* the ledgers that hold the events of txs, added in any order
Reorderings(txs) ==
    {[i \in 1 .. Len(txs) |-> txs[p[i]]] : p \in Permutations(1 .. Len(txs))}

DistinctInstants(txs) ==
    \A i, j \in 1 .. Len(txs) : i # j => txs[i].timestamp # txs[j].timestamp

\* what spendPoints(pointsToSpend) returns or throws on ledger txs
SpendOutcome(txs, pointsToSpend) ==
    IF IsNegativeAmount(pointsToSpend)
    THEN [threw |-> TRUE, value |-> PositiveError]
    ELSE IF IsInsufficient(getTotalPoints(txs), pointsToSpend)
    THEN [threw |-> TRUE, value |-> InsufficientError(getTotalPoints(txs), pointsToSpend)]
    ELSE [threw |-> FALSE, value |-> ToResult(FinalWalk(txs, pointsToSpend).spendingByPayer)]

\* the ledger after spendPoints(pointsToSpend) at wall-clock reading now
LedgerAfterSpend(txs, pointsToSpend, now) ==
    IF SpendOutcome(txs, pointsToSpend).threw THEN txs
    ELSE txs \o SpendTransactions(SpendOutcome(txs, pointsToSpend).value, now)

\* C21: when the events of the ledger have pairwise distinct instants,
\* every order of adding them gives the same getBalances() mapping and,
\* for the amount asked, the same spendPoints outcome: the same error, or
\* the same entries in the same order and the same balances afterwards.
C21_InsertionOrderIrrelevant ==
    (call.op \in {"spendPoints", "getBalances"} /\ DistinctInstants(call.before)) =>
        \A txs \in Reorderings(call.before) :
            /\ call.op = "getBalances" => BalancesOf(txs) = ret.value
            /\ call.op = "spendPoints" =>
                  /\ SpendOutcome(txs, call.amount) = ret
                  /\ BalancesOf(LedgerAfterSpend(txs, call.amount, call.now))
                        = BalancesOf(transactions)

\* a spend over three events added out of chronological order, one of
\* them a debit, that draws from two sources
C21_Witness ==
    /\ SpendOk
    /\ Len(call.before) = 3
    /\ DistinctInstants(call.before)
    /\ call.before[1].timestamp > call.before[3].timestamp
    /\ \E i \in 1 .. 3 : call.before[i].points < 0
    /\ Len(ret.value) = 2

====
